---- MODULE Spec2Model ----
(***************************************************************************)
(* Value marshalling of playwright/js_handle.py: serialize_value,          *)
(* serialize_argument, parse_value and parse_result.                       *)
(*                                                                         *)
(* Python values are tagged records (field t is the Python type).  A wire  *)
(* value is a Python value too: the encoder returns dicts, lists and raw   *)
(* primitives, and the decoder inspects dicts by key.                      *)
(*                                                                         *)
(* A str is a sequence of tokens (atomic substrings); the trailing "Z" the *)
(* encoder appends to a date string is a token of its own, so that [:-1]   *)
(* is the removal of the last token.                                       *)
(***************************************************************************)
EXTENDS Integers, Sequences, FiniteSets, TLC

VARIABLES
    input,    \* pure calls: the value handed to serialize_argument / parse_result
    pc,       \* pure calls: "start", "serialized", "roundtrip", "parsed"
    out,      \* pure calls: what serialize_argument did (raised or envelope)
    native,   \* pure calls: what parse_result did (raised or value)
    arg,      \* stepwise calls: arg[c], the argument of call c
    status,   \* stepwise calls: "init", "running", "returned", "raised", "unused"
    stack,    \* stepwise calls: stack[c], the frames of call c, outermost first
    handles,  \* stepwise calls: handles[l], the contents of handle list object l
    result,   \* stepwise calls: result[c], the envelope call c returned
    heap      \* the container objects a PyRef names: heap[id] is a list or dict

vars == <<input, pc, out, native, arg, status, stack, handles, result, heap>>

pureVars == <<input, pc, out, native>>
stepVars == <<arg, status, stack, handles, result, heap>>

(***************************************************************************)
(* Bounds of the model and the program's constant.                         *)
(***************************************************************************)
MaxDepth == 100
\* The longest list of the values encoded and decoded in one step.
MaxLen == 2
\* The deepest nesting of the values encoded and decoded in one step.
MaxNest == 4
\* The longest chain of containers walked node by node.
MaxChain == 102
\* The most children of a container that may hold itself.
MaxKids == 2

(***************************************************************************)
(* Python values.                                                          *)
(***************************************************************************)
PyNone == [t |-> "None"]
PyBool(b) == [t |-> "bool", b |-> b]
PyInt(n) == [t |-> "int", n |-> n]
\* A float: cls is "fin", "inf" or "nan"; neg is the sign bit; mag2 is twice
\* the magnitude of a finite float (so halves are exact).
PyFloat(cls, neg, mag2) == [t |-> "float", cls |-> cls, neg |-> neg, mag2 |-> mag2]
PyStr(s) == [t |-> "str", s |-> s]
Str1(tok) == PyStr(<<tok>>)
\* A datetime: wall clock hour and microsecond, tzinfo (aware, off in hours).
PyDatetime(wall, us, aware, off) ==
    [t |-> "datetime", wall |-> wall, us |-> us, aware |-> aware, off |-> off]
PyList(items) == [t |-> "list", items |-> items]
\* A dict: its entries [k, v] in iteration (insertion) order, keys distinct.
PyDict(items) == [t |-> "dict", items |-> items]
Dict1(k, v) == PyDict(<<[k |-> k, v |-> v]>>)
PyHandle(guid) == [t |-> "JSHandle", guid |-> guid]
\* An object of any other type: an instance of object, not iterable.
PyOther == [t |-> "object"]
\* A reference to a container object of the heap (a list or dict that may be
\* reached from itself).
PyRef(id) == [t |-> "ref", id |-> id]

Channel(h) == [t |-> "Channel", guid |-> h.guid]

PosInf == PyFloat("inf", FALSE, 0)
NegInf == PyFloat("inf", TRUE, 0)
NaN == PyFloat("nan", FALSE, 0)
PosZero == PyFloat("fin", FALSE, 0)
NegZero == PyFloat("fin", TRUE, 0)

Has(d, k) == \E i \in 1..Len(d.items) : d.items[i].k = k
Get(d, k) == d.items[CHOOSE i \in 1..Len(d.items) : d.items[i].k = k].v

isinstance(value, ty) ==
    IF ty = "int" THEN value.t \in {"int", "bool"} ELSE value.t = ty

(***************************************************************************)
(* Python's == on the values above.                                        *)
(***************************************************************************)
IsNumber(v) == v.t \in {"bool", "int", "float"}
\* Twice the numeric value of a number that is neither infinite nor NaN.
Num2(v) ==
    IF v.t = "bool" THEN (IF v.b THEN 2 ELSE 0)
    ELSE IF v.t = "int" THEN 2 * v.n
    ELSE IF v.neg THEN 0 - v.mag2 ELSE v.mag2
IsFinite(v) == v.t # "float" \/ v.cls = "fin"
NumEq(a, b) ==
    IF (a.t = "float" /\ a.cls = "nan") \/ (b.t = "float" /\ b.cls = "nan") THEN FALSE
    ELSE IF IsFinite(a) /\ IsFinite(b) THEN Num2(a) = Num2(b)
    ELSE ~IsFinite(a) /\ ~IsFinite(b) /\ a.neg = b.neg
\* The instant of an aware datetime: its UTC hour and its microsecond.
Instant(d) == <<d.wall - d.off, d.us>>
DatetimeEq(a, b) ==
    IF a.aware # b.aware THEN FALSE
    ELSE IF a.aware THEN Instant(a) = Instant(b)
    ELSE a.wall = b.wall /\ a.us = b.us

RECURSIVE PyEq(_, _)
PyEq(a, b) ==
    IF IsNumber(a) /\ IsNumber(b) THEN NumEq(a, b)
    ELSE IF a.t # b.t THEN FALSE
    ELSE IF a.t = "datetime" THEN DatetimeEq(a, b)
    ELSE IF a.t = "list" THEN
        /\ Len(a.items) = Len(b.items)
        /\ \A i \in 1..Len(a.items) : PyEq(a.items[i], b.items[i])
    ELSE IF a.t = "dict" THEN
        /\ Len(a.items) = Len(b.items)
        /\ \A i \in 1..Len(a.items) :
              /\ Has(b, a.items[i].k)
              /\ PyEq(a.items[i].v, Get(b, a.items[i].k))
    ELSE a = b

(***************************************************************************)
(* datetime.isoformat and datetime.fromisoformat, on token strings.        *)
(***************************************************************************)
WallToks == [h \in {10, 12} |->
    IF h = 10 THEN "2020-06-01T10:30:00" ELSE "2020-06-01T12:30:00"]
MicroToks == [u \in {1, 123456} |-> IF u = 1 THEN ".000001" ELSE ".123456"]
OffToks == [o \in {0 - 5, 0, 2} |->
    IF o = 0 - 5 THEN "-05:00" ELSE IF o = 0 THEN "+00:00" ELSE "+02:00"]

isoformat(d) ==
    <<WallToks[d.wall]>>
    \o (IF d.us # 0 THEN <<MicroToks[d.us]>> ELSE <<>>)
    \o (IF d.aware THEN <<OffToks[d.off]>> ELSE <<>>)

IsWallTok(x) == \E h \in DOMAIN WallToks : WallToks[h] = x
IsMicroTok(x) == \E u \in DOMAIN MicroToks : MicroToks[u] = x
IsOffTok(x) == \E o \in DOMAIN OffToks : OffToks[o] = x
WallOf(x) == CHOOSE h \in DOMAIN WallToks : WallToks[h] = x
MicroOf(x) == CHOOSE u \in DOMAIN MicroToks : MicroToks[u] = x
OffOf(x) == CHOOSE o \in DOMAIN OffToks : OffToks[o] = x

Returned(v) == [raised |-> FALSE, value |-> v]
\* An exception left the call: no value is returned.
Raised(msg) == [raised |-> TRUE, value |-> Str1(msg)]

fromisoformat(s) ==
    LET n == Len(s)
        hasMicro == n >= 2 /\ IsMicroTok(s[2])
        offAt == IF hasMicro THEN 3 ELSE 2
        hasOff == n >= offAt /\ IsOffTok(s[offAt])
        used == 1 + (IF hasMicro THEN 1 ELSE 0) + (IF hasOff THEN 1 ELSE 0)
    IN  IF n = 0 \/ ~IsWallTok(s[1]) \/ used # n
        THEN Raised("ValueError: Invalid isoformat string")
        ELSE Returned(PyDatetime(WallOf(s[1]),
                                 IF hasMicro THEN MicroOf(s[2]) ELSE 0,
                                 hasOff,
                                 IF hasOff THEN OffOf(s[offAt]) ELSE 0))

(***************************************************************************)
(* The encoder: serialize_value and serialize_argument.                    *)
(***************************************************************************)
\* The object a name is bound to: a PyRef is followed into the heap.
Deref(value) == IF value.t = "ref" THEN heap[value.id] ELSE value

\* Everything that is no list and no dict taken for a primitive.
is_primitive_value_not_container(value) == value.t \notin {"list", "dict"}

is_primitive_value(value) ==
    \/ isinstance(value, "bool")
    \/ isinstance(value, "int")
    \/ isinstance(value, "float")
    \/ isinstance(value, "str")

\* The index taken after the append instead of before it.
handle_index_after(hs) == Len(hs) + 1

\* h = len(handles), taken before the append.
handle_index(hs) == Len(hs)

\* The ceiling applied one level early.
DepthExceeded_early(depth) == depth >= MaxDepth

\* The ceiling applied one level late.
DepthExceeded_late(depth) == depth > MaxDepth + 1

DepthExceeded(depth) == depth > MaxDepth

\* The primitive wrapped in the scalar tag.
primitive_node_tagged(value) == Dict1("v", value)

\* What the primitive case returns for value.
primitive_node(value) == value

\* serialize_value returned value, leaving the caller's list as hs.
SRet(value, hs) == [raised |-> FALSE, value |-> value, handles |-> hs]
\* serialize_value raised Error; the caller's list was left as hs.
SRaise(hs) ==
    [raised |-> TRUE, value |-> Str1("Maximum argument depth exceeded"), handles |-> hs]

ValuesOf(d) == [i \in 1..Len(d.items) |-> d.items[i].v]

\* The node a list or dict returns once its children are encoded as wires:
\* dict(a=result), or dict(o=result) with the keys in iteration order.
container_node(value, wires) ==
    IF isinstance(value, "list") THEN Dict1("a", PyList(wires))
    ELSE Dict1("o", PyDict([i \in 1..Len(value.items) |->
                      [k |-> value.items[i].k, v |-> wires[i]]]))

\* The children of a list or dict, in the order the walk visits them.
Children(value) == IF isinstance(value, "list") THEN value.items ELSE ValuesOf(value)

RECURSIVE serialize_value(_, _, _)
RECURSIVE serialize_each(_, _, _, _, _)

\* The children kids[i..] serialized in order at the given depth, after acc;
\* the first child that raises ends the walk.
serialize_each(kids, i, acc, hs, depth) ==
    IF i > Len(kids) THEN SRet(PyList(acc), hs)
    ELSE LET r == serialize_value(kids[i], hs, depth)
         IN  IF r.raised THEN r
             ELSE serialize_each(kids, i + 1, Append(acc, r.value), r.handles, depth)

serialize_value(value0, hs, depth) ==
    LET value == Deref(value0) IN
    IF isinstance(value, "JSHandle") THEN
        SRet(Dict1("h", PyInt(handle_index(hs))), Append(hs, Channel(value)))
    ELSE IF DepthExceeded(depth) THEN SRaise(hs)
    ELSE IF value.t = "None" THEN SRet(Dict1("v", Str1("undefined")), hs)
    ELSE IF isinstance(value, "float") /\ NumEq(value, PosInf) THEN
        SRet(Dict1("v", Str1("Infinity")), hs)
    ELSE IF isinstance(value, "float") /\ NumEq(value, NegInf) THEN
        SRet(Dict1("v", Str1("-Infinity")), hs)
    ELSE IF isinstance(value, "float") /\ NumEq(value, NegZero) THEN
        SRet(Dict1("v", Str1("-0")), hs)
    ELSE IF isinstance(value, "float") /\ NumEq(value, NegZero) THEN
        SRet(Dict1("v", Str1("-0")), hs)
    ELSE IF isinstance(value, "float") /\ value.cls = "nan" THEN
        SRet(Dict1("v", Str1("NaN")), hs)
    ELSE IF isinstance(value, "datetime") THEN
        SRet(Dict1("d", PyStr(isoformat(value) \o <<"Z">>)), hs)
    ELSE IF is_primitive_value(value) THEN SRet(primitive_node(value), hs)
    ELSE IF isinstance(value, "list") \/ isinstance(value, "dict") THEN
        LET r == serialize_each(Children(value), 1, <<>>, hs, depth + 1)
        IN  IF r.raised THEN r
            ELSE SRet(container_node(value, r.value.items), r.handles)
    ELSE SRet(Dict1("v", Str1("undefined")), hs)

\* dict(value=value, handles=handles)
Envelope(value, hs) ==
    PyDict(<<[k |-> "value", v |-> value], [k |-> "handles", v |-> PyList(hs)]>>)

serialize_argument(a) ==
    LET r == serialize_value(a, <<>>, 0)
    IN  IF r.raised THEN Raised("Maximum argument depth exceeded")
        ELSE Returned(Envelope(r.value, r.handles))

(***************************************************************************)
(* The decoder: parse_value and parse_result.                              *)
(***************************************************************************)
\* An unknown node dropped.
unknown_node_dropped(value) == PyNone

\* What the last line of parse_value returns for value.
unknown_node(value) == value

\* The elements a Python iteration over x yields (a str by token, a dict by
\* key), or a TypeError for an object that is not iterable.
Iterable(x) == x.t \in {"list", "str", "dict"}
IterItems(x) ==
    IF x.t = "list" THEN x.items
    ELSE IF x.t = "str" THEN [i \in 1..Len(x.s) |-> Str1(x.s[i])]
    ELSE [i \in 1..Len(x.items) |-> Str1(x.items[i].k)]

RECURSIVE parse_value(_)
RECURSIVE parse_each(_, _, _)

\* The nodes kids[i..] decoded in order after acc; the first that raises
\* ends the walk.
parse_each(kids, i, acc) ==
    IF i > Len(kids) THEN Returned(PyList(acc))
    ELSE LET r == parse_value(kids[i])
         IN  IF r.raised THEN r ELSE parse_each(kids, i + 1, Append(acc, r.value))

parse_value(value) ==
    IF value.t = "None" THEN Returned(PyNone)
    ELSE IF isinstance(value, "dict") /\ Has(value, "v") THEN
        LET v == Get(value, "v") IN
        IF PyEq(v, Str1("Infinity")) THEN Returned(PosInf)
        ELSE IF PyEq(v, Str1("-Infinity")) THEN Returned(NegInf)
        ELSE IF PyEq(v, Str1("-0")) THEN Returned(NegZero)
        ELSE IF PyEq(v, Str1("NaN")) THEN Returned(NaN)
        ELSE IF PyEq(v, Str1("undefined")) THEN Returned(PyNone)
        ELSE IF PyEq(v, Str1("null")) THEN Returned(PyNone)
        ELSE Returned(v)
    ELSE IF isinstance(value, "dict") /\ Has(value, "a") THEN
        LET a == Get(value, "a") IN
        IF ~Iterable(a) THEN Raised("TypeError: object is not iterable")
        ELSE parse_each(IterItems(a), 1, <<>>)
    ELSE IF isinstance(value, "dict") /\ Has(value, "d") THEN
        LET d == Get(value, "d") IN
        IF d.t # "str" THEN Raised("TypeError: fromisoformat: argument must be str")
        ELSE fromisoformat(SubSeq(d.s, 1, Len(d.s) - 1))
    ELSE IF isinstance(value, "dict") /\ Has(value, "o") THEN
        LET o == Get(value, "o") IN
        IF o.t = "dict" THEN
            LET r == parse_each(ValuesOf(o), 1, <<>>)
            IN  IF r.raised THEN r
                ELSE Returned(PyDict([i \in 1..Len(o.items) |->
                         [k |-> o.items[i].k, v |-> r.value.items[i]]]))
        ELSE IF Iterable(o) /\ Len(IterItems(o)) = 0 THEN Returned(PyDict(<<>>))
        ELSE Raised("TypeError: o[name]")
    ELSE Returned(unknown_node(value))

parse_result(r) == parse_value(r)

(***************************************************************************)
(* The values the calls are made on.                                       *)
(***************************************************************************)
Seqs(S, n) == UNION {[1..k -> S] : k \in 0..n}

hA == PyHandle("A")
hB == PyHandle("B")

Sentinels == {"Infinity", "-Infinity", "-0", "NaN", "undefined", "null"}
TagKeys == {"v", "a", "d", "o", "h"}
Keys == TagKeys \cup {"k"}

Datetimes ==
    {PyDatetime(w, u, z[1], z[2]) :
        w \in {10, 12}, u \in {0, 123456},
        z \in {<<FALSE, 0>>, <<TRUE, 0>>, <<TRUE, 2>>, <<TRUE, 0 - 5>>}}

Numbers ==
    {PyBool(TRUE), PyBool(FALSE), PyInt(0), PyInt(1), PosZero, NegZero,
     PyFloat("fin", FALSE, 3), PyFloat("fin", TRUE, 5)}
Strings ==
    {Str1(s) : s \in Sentinels \cup {"x"}}
    \cup {PyStr(<<"2020-06-01T10:30:00", "Z">>),
          PyStr(<<"2020-06-01T12:30:00", ".123456", "+02:00", "Z">>),
          PyStr(<<>>)}
Atoms ==
    Numbers \cup Strings \cup Datetimes
    \cup {PyNone, PosInf, NegInf, NaN, hA, hB, PyOther}
\* The atoms lists of full length are made of.
ListAtoms ==
    {PyNone, PyInt(1), PosZero, NegZero, PosInf, Str1("x"), Str1("NaN"),
     Str1("undefined"), hA, hB, PyOther}

Lists1 ==
    {PyList(s) : s \in Seqs(Atoms, 1)} \cup {PyList(s) : s \in Seqs(ListAtoms, MaxLen)}
Dicts1 ==
    {Dict1(k, a) : k \in Keys, a \in Atoms}
    \cup {PyDict(<<[k |-> ks[1], v |-> a], [k |-> ks[2], v |-> b]>>) :
            ks \in {<<"h", "v">>, <<"k", "a">>, <<"o", "d">>, <<"k", "j">>},
            a \in {PyInt(1), hA, PyNone}, b \in {Str1("NaN"), Str1("x"), hA, hB}}
Level1 == Lists1 \cup Dicts1
Level2 ==
    {PyList(<<c>>) : c \in Level1}
    \cup {PyList(<<a, c>>) : a \in {hA, PyInt(1)}, c \in Lists1}
    \cup {Dict1(k, c) : k \in Keys, c \in Level1}
    \cup {PyDict(<<[k |-> "k", v |-> c], [k |-> "v", v |-> hB]>>) : c \in Lists1}

\* leaf under k containers, lists and dicts alternating, outermost of kind.
RECURSIVE Nest(_, _, _)
Nest(k, leaf, kind) ==
    IF k = 0 THEN leaf
    ELSE IF kind = "list" THEN PyList(<<Nest(k - 1, leaf, "dict")>>)
    ELSE Dict1("k", Nest(k - 1, leaf, "list"))

NestLeaves ==
    {PyInt(1), PosZero, Str1("Infinity"), PyNone, hA, PyList(<<>>), PyDict(<<>>),
     PyList(<<hA, hB>>), PyList(<<hA, PyInt(1)>>), Dict1("v", hA)}
Deep ==
    {Nest(k, leaf, kind) :
        k \in 2..(MaxNest - 1), leaf \in NestLeaves, kind \in {"list", "dict"}}

\* Wire values as the peer may send them, unknown nodes nested in known ones.
WireExtras ==
    {Dict1("a", PyList(<<Dict1("k", PyInt(1)), Dict1("h", PyInt(0))>>)),
     Dict1("a", PyList(<<Dict1("h", PyInt(1)), Dict1("v", Str1("NaN"))>>)),
     Dict1("o", Dict1("x", Dict1("h", PyInt(0)))),
     Dict1("o", PyDict(<<[k |-> "x", v |-> Dict1("j", PyList(<<>>))],
                         [k |-> "y", v |-> Dict1("d", PyInt(1))]>>)),
     Dict1("a", PyList(<<PyList(<<PyInt(1)>>), Dict1("a", PyInt(1))>>))}

\* The tokens that are one character long.
CharToks == {"x"}
\* The wire values whose decoding the token strings and string-keyed dicts
\* of the model render: an a payload that is a str is iterated character by
\* character, so its tokens are single characters; an o payload that is a
\* list is indexed by its own elements, so it holds no integers.
Representable(v) ==
    \/ v.t # "dict"
    \/ Has(v, "v")
    \/ /\ Has(v, "a") =>
              (Get(v, "a").t = "str" =>
                  \A i \in 1..Len(Get(v, "a").s) : Get(v, "a").s[i] \in CharToks)
       /\ (~Has(v, "a") /\ ~Has(v, "d") /\ Has(v, "o")) =>
              (Get(v, "o").t = "list" =>
                  \A i \in 1..Len(Get(v, "o").items) :
                      ~isinstance(Get(v, "o").items[i], "int"))

Inputs ==
    {v \in Atoms \cup Level1 \cup Level2 \cup Deep \cup WireExtras : Representable(v)}

(***************************************************************************)
(* Calls that run to completion: one value is encoded and decoded back,    *)
(* or decoded as a wire value received from the peer.                      *)
(***************************************************************************)
NotYet == Returned(PyNone)

Calls == {1, 2}

StepIdle ==
    /\ arg = [c \in Calls |-> PyNone]
    /\ status = [c \in Calls |-> "unused"]
    /\ stack = [c \in Calls |-> <<>>]
    /\ handles = [c \in Calls |-> <<>>]
    /\ result = [c \in Calls |-> PyNone]
    /\ heap = <<>>

Init ==
    /\ input \in Inputs
    /\ pc = "start"
    /\ out = NotYet
    /\ native = NotYet
    /\ StepIdle

\* JSHandle.evaluate: arg=serialize_argument(arg)
Serialize ==
    /\ pc = "start"
    /\ out' = serialize_argument(input)
    /\ pc' = "serialized"
    /\ UNCHANGED <<input, native, stepVars>>

\* The encoded value decoded again.
ParseBack ==
    /\ pc = "serialized"
    /\ ~out.raised
    /\ native' = parse_result(Get(out.value, "value"))
    /\ pc' = "roundtrip"
    /\ UNCHANGED <<input, out, stepVars>>

\* JSHandle.jsonValue: parse_result of what the channel sent.
ParseWire ==
    /\ pc = "start"
    /\ native' = parse_result(input)
    /\ pc' = "parsed"
    /\ UNCHANGED <<input, out, stepVars>>

Next == Serialize \/ ParseBack \/ ParseWire

Spec == Init /\ [][Next]_vars

(***************************************************************************)
(* Calls walked node by node: serialize_argument as a stack of frames, one *)
(* step per node visited or container returned, two calls interleaved.     *)
(***************************************************************************)
PureIdle ==
    /\ input = PyNone
    /\ pc = "idle"
    /\ out = NotYet
    /\ native = NotYet

\* A chain of n containers, lists and dicts alternating: each holds pre and
\* then the next one; the innermost holds last.
ChainHeap(n, pre, last) ==
    [i \in 1..n |->
        LET kids == IF i < n THEN pre \o <<PyRef(i + 1)>> ELSE last
        IN  IF i % 2 = 1 THEN PyList(kids)
            ELSE PyDict([j \in 1..Len(kids) |->
                     [k |-> IF j = 1 THEN "k" ELSE "l", v |-> kids[j]]])]

ChainHeaps ==
    {ChainHeap(n, pre, last) :
        n \in (MaxDepth - 1)..MaxChain,
        pre \in {<<>>, <<hA>>},
        last \in {<<>>, <<PyInt(1)>>, <<hA>>, <<hA, PyNone>>, <<hB, hA>>, <<PosInf>>}}

\* Two containers that may hold themselves and each other.
SmallHeaps ==
    {<<IF kind = "list" THEN PyList(kids)
       ELSE PyDict([j \in 1..Len(kids) |->
                [k |-> IF j = 1 THEN "k" ELSE "l", v |-> kids[j]]]),
       PyList(other)>> :
        kind \in {"list", "dict"},
        kids \in Seqs({PyInt(1), hA, PyRef(1), PyRef(2)}, MaxKids),
        other \in {<<>>, <<PyRef(1)>>, <<hB, PyRef(2)>>}}

\* l = [hB, l]
SelfHeap == <<PyList(<<hB, PyRef(1)>>)>>

ConcInputs ==
    {PyInt(1), hA, PyList(<<hA, hB>>), PyList(<<hA, PyList(<<hB, hA>>)>>),
     Dict1("h", hB), PyList(<<PosZero, hA, PyNone>>),
     PyDict(<<[k |-> "v", v |-> hA], [k |-> "a", v |-> PyList(<<hA>>)]>>)}

\* One call, on a container of the heap.
SingleInit ==
    /\ heap \in ChainHeaps \cup SmallHeaps
    /\ arg = [c \in Calls |-> IF c = 1 THEN PyRef(1) ELSE PyNone]
    /\ status = [c \in Calls |-> IF c = 1 THEN "init" ELSE "unused"]

\* Two calls.
ConcInit ==
    /\ heap = SelfHeap
    /\ arg \in [Calls -> ConcInputs \cup {PyRef(1)}]
    /\ arg[2] \in ConcInputs
    /\ status = [c \in Calls |-> "init"]

StepInit ==
    /\ PureIdle
    /\ SingleInit \/ ConcInit
    /\ stack = [c \in Calls |-> <<>>]
    /\ handles = [l \in Calls |-> <<>>]
    /\ result = [c \in Calls |-> PyNone]

\* Every call on one list object.
local_handles_shared(c) == 1

\* The list object the name handles of call c is bound to: list() makes a
\* new one in every call.
local_handles(c) == c

Frame(fn, node, acc) == [fn |-> fn, node |-> node, acc |-> acc]
Top(c) == stack[c][Len(stack[c])]
\* The values the frame hands to serialize_value, in order.
FrameKids(f) == IF f.fn = "serialize_argument" THEN <<f.node>> ELSE Children(f.node)
Pending(c) == Len(Top(c).acc) < Len(FrameKids(Top(c)))
NextKid(c) == FrameKids(Top(c))[Len(Top(c).acc) + 1]
\* The depth serialize_value is called with for the next child.
KidDepth(c) == Len(stack[c]) - 1
\* The visit reaches the list or the dict case.
EntersContainer(value, depth) ==
    /\ ~isinstance(Deref(value), "JSHandle")
    /\ ~DepthExceeded(depth)
    /\ isinstance(Deref(value), "list") \/ isinstance(Deref(value), "dict")
\* The top frame with one more child done.
Yield(c, wire) ==
    [stack[c] EXCEPT ![Len(stack[c])].acc = Append(@, wire)]

\* serialize_argument(arg): handles = list()
Call(c) ==
    /\ status[c] = "init"
    /\ status' = [status EXCEPT ![c] = "running"]
    /\ handles' = [handles EXCEPT ![local_handles(c)] = <<>>]
    /\ stack' = [stack EXCEPT ![c] = <<Frame("serialize_argument", arg[c], <<>>)>>]
    /\ UNCHANGED <<arg, result, heap, pureVars>>

\* serialize_value on a list or dict within the ceiling: the walk goes down.
VisitContainer(c) ==
    /\ status[c] = "running"
    /\ Pending(c)
    /\ EntersContainer(NextKid(c), KidDepth(c))
    /\ stack' = [stack EXCEPT ![c] =
                    Append(@, Frame("serialize_value", Deref(NextKid(c)), <<>>))]
    /\ UNCHANGED <<arg, status, handles, result, heap, pureVars>>

\* serialize_value on anything else that returns a node.
VisitScalar(c) ==
    /\ status[c] = "running"
    /\ Pending(c)
    /\ ~EntersContainer(NextKid(c), KidDepth(c))
    /\ LET r == serialize_value(NextKid(c), handles[local_handles(c)], KidDepth(c))
       IN  /\ ~r.raised
           /\ stack' = [stack EXCEPT ![c] = Yield(c, r.value)]
           /\ handles' = [handles EXCEPT ![local_handles(c)] = r.handles]
    /\ UNCHANGED <<arg, status, result, heap, pureVars>>

\* serialize_value raises Error: every frame of the call is left.
RaiseDepth(c) ==
    /\ status[c] = "running"
    /\ Pending(c)
    /\ ~EntersContainer(NextKid(c), KidDepth(c))
    /\ serialize_value(NextKid(c), handles[local_handles(c)], KidDepth(c)).raised
    /\ status' = [status EXCEPT ![c] = "raised"]
    /\ stack' = [stack EXCEPT ![c] = <<>>]
    /\ UNCHANGED <<arg, handles, result, heap, pureVars>>

\* A list or dict has all its children encoded: return dict(a=...) / dict(o=...).
ReturnContainer(c) ==
    /\ status[c] = "running"
    /\ ~Pending(c)
    /\ Len(stack[c]) > 1
    /\ stack' = [stack EXCEPT ![c] =
                    [SubSeq(@, 1, Len(@) - 1) EXCEPT ![Len(@) - 1].acc =
                        Append(@, container_node(Top(c).node, Top(c).acc))]]
    /\ UNCHANGED <<arg, status, handles, result, heap, pureVars>>

\* return dict(value=value, handles=handles)
ReturnArgument(c) ==
    /\ status[c] = "running"
    /\ ~Pending(c)
    /\ Len(stack[c]) = 1
    /\ result' = [result EXCEPT ![c] =
                     Envelope(Top(c).acc[1], handles[local_handles(c)])]
    /\ status' = [status EXCEPT ![c] = "returned"]
    /\ stack' = [stack EXCEPT ![c] = <<>>]
    /\ UNCHANGED <<arg, handles, heap, pureVars>>

CallStep(c) ==
    \/ Call(c)
    \/ VisitContainer(c)
    \/ VisitScalar(c)
    \/ RaiseDepth(c)
    \/ ReturnContainer(c)
    \/ ReturnArgument(c)

StepNext == \E c \in Calls : CallStep(c)

StepSpec == StepInit /\ [][StepNext]_vars

\* A call, once made, runs on: each call is synchronous code of its thread.
LiveSpec == StepSpec /\ \A c \in Calls : WF_vars(CallStep(c))

(***************************************************************************)
(* Properties of the calls that run to completion.                         *)
(***************************************************************************)
\* The wire value serialize_argument returned.
Wire == Get(out.value, "value")
\* The handle list serialize_argument returned.
WireHandles == Get(out.value, "handles").items
Encoded == pc \in {"serialized", "roundtrip"} /\ ~out.raised

RECURSIVE ConcatAll(_, _)
ConcatAll(seqs, i) == IF i > Len(seqs) THEN <<>> ELSE seqs[i] \o ConcatAll(seqs, i + 1)

\* Built only from booleans, integers, finite floats, strings, lists and dicts.
RECURSIVE IsPlain(_)
IsPlain(v) ==
    IF v.t \in {"bool", "int", "str"} THEN TRUE
    ELSE IF v.t = "float" THEN v.cls = "fin"
    ELSE IF v.t = "list" THEN \A i \in 1..Len(v.items) : IsPlain(v.items[i])
    ELSE IF v.t = "dict" THEN \A i \in 1..Len(v.items) : IsPlain(v.items[i].v)
    ELSE FALSE

\* Holds the float 0.0 with the sign bit clear.
RECURSIVE HasPosZero(_)
HasPosZero(v) ==
    IF v.t = "list" THEN \E i \in 1..Len(v.items) : HasPosZero(v.items[i])
    ELSE IF v.t = "dict" THEN \E i \in 1..Len(v.items) : HasPosZero(v.items[i].v)
    ELSE v = PosZero

\* C1: a value built only from booleans, integers, finite floats, strings,
\* lists and string-keyed dicts is encoded without an error, and decoding
\* the encoded value gives a value equal (Python ==) to the original;
\* strings that spell a sentinel and dicts keyed by tag names included.
\* The decoded value is the very same value unless the original holds a
\* float 0.0, which comes back as -0.0 (equal under ==).
C1_RoundTrip ==
    /\ (pc = "serialized" /\ IsPlain(input)) => ~out.raised
    /\ (pc = "roundtrip" /\ IsPlain(input)) =>
           /\ ~native.raised
           /\ PyEq(native.value, input)
           /\ ~HasPosZero(input) => native.value = input

C1_Witness ==
    /\ pc = "roundtrip"
    /\ input = Dict1("v", PyList(<<Str1("NaN"), Str1("undefined")>>))
    /\ native = Returned(input)

\* The indices of the handle-tag nodes of a wire value, in traversal order.
RECURSIVE WireHandleIdx(_)
WireHandleIdx(node) ==
    IF node.t # "dict" THEN <<>>
    ELSE IF Has(node, "h") THEN <<Get(node, "h").n>>
    ELSE IF Has(node, "a") THEN
        ConcatAll([i \in 1..Len(Get(node, "a").items) |->
                      WireHandleIdx(Get(node, "a").items[i])], 1)
    ELSE IF Has(node, "o") THEN
        ConcatAll([i \in 1..Len(Get(node, "o").items) |->
                      WireHandleIdx(Get(node, "o").items[i].v)], 1)
    ELSE <<>>

\* The JSHandle occurrences of a native value, in traversal order.
RECURSIVE HandleOccurrences(_)
HandleOccurrences(v) ==
    IF v.t = "JSHandle" THEN <<v>>
    ELSE IF v.t = "list" THEN
        ConcatAll([i \in 1..Len(v.items) |-> HandleOccurrences(v.items[i])], 1)
    ELSE IF v.t = "dict" THEN
        ConcatAll([i \in 1..Len(v.items) |-> HandleOccurrences(v.items[i].v)], 1)
    ELSE <<>>

\* C2: in the envelope serialize_argument returns, the handle-tag nodes read
\* in traversal order carry the indices 0, 1, ..., n-1 with n = len(handles),
\* and handles[i] is the channel of the i-th JSHandle occurrence of the
\* argument, every occurrence counted (no deduplication).
C2_HandleSubstitution ==
    Encoded =>
        LET idx == WireHandleIdx(Wire)
            occ == HandleOccurrences(input)
        IN  /\ Len(idx) = Len(WireHandles)
            /\ \A i \in 1..Len(idx) : idx[i] = i - 1
            /\ Len(occ) = Len(WireHandles)
            /\ \A i \in 1..Len(occ) : WireHandles[i] = Channel(occ[i])

C2_Witness ==
    /\ pc = "serialized"
    /\ input = PyList(<<hA, PyList(<<hB, hA>>)>>)
    /\ Wire = Dict1("a", PyList(<<Dict1("h", PyInt(0)),
                 Dict1("a", PyList(<<Dict1("h", PyInt(1)), Dict1("h", PyInt(2))>>))>>))
    /\ WireHandles = <<Channel(hA), Channel(hB), Channel(hA)>>

\* A dict with exactly one key, one of the tags.
IsTagged(node) ==
    node.t = "dict" /\ Len(node.items) = 1 /\ node.items[1].k \in TagKeys
TagOf(node) == node.items[1].k
Payload(node) == node.items[1].v

\* Every node is a tagged node.
RECURSIVE AllTagged(_)
AllTagged(node) ==
    /\ IsTagged(node)
    /\ TagOf(node) = "a" =>
          \A i \in 1..Len(Payload(node).items) : AllTagged(Payload(node).items[i])
    /\ TagOf(node) = "o" =>
          \A i \in 1..Len(Payload(node).items) : AllTagged(Payload(node).items[i].v)

\* Every node is a raw primitive literal or a well-formed tagged node.
RECURSIVE WellFormed(_)
WellFormed(node) ==
    IF node.t \in {"bool", "int", "float", "str"} THEN TRUE
    ELSE /\ IsTagged(node)
         /\ TagOf(node) = "v" =>
               /\ Payload(node).t = "str"
               /\ Len(Payload(node).s) = 1
               /\ Payload(node).s[1] \in Sentinels
         /\ TagOf(node) = "d" => Payload(node).t = "str"
         /\ TagOf(node) = "h" => Payload(node).t = "int"
         /\ TagOf(node) = "a" =>
               /\ Payload(node).t = "list"
               /\ \A i \in 1..Len(Payload(node).items) :
                     WellFormed(Payload(node).items[i])
         /\ TagOf(node) = "o" =>
               /\ Payload(node).t = "dict"
               /\ \A i \in 1..Len(Payload(node).items) :
                     WellFormed(Payload(node).items[i].v)

IsZero(v) == v.t = "float" /\ v.cls = "fin" /\ v.mag2 = 0
\* A boolean, an integer, a string, or a float that is not infinite, NaN or
\* negative zero.
IsNonSpecialPrimitive(v) ==
    \/ v.t \in {"bool", "int", "str"}
    \/ v.t = "float" /\ v.cls = "fin" /\ ~(IsZero(v) /\ v.neg)

\* C4 as stated: every node of the wire value is a tagged node carrying
\* exactly one of the tags v, d, a, o, h, and a boolean, integer, non-special
\* float or string is emitted as the scalar-tag node {v: literal}.
C4_AllNodesTagged ==
    Encoded =>
        /\ AllTagged(Wire)
        /\ IsNonSpecialPrimitive(input) => Wire = Dict1("v", input)

\* C4 as amended: every node of the wire value is either a raw primitive
\* literal or a dict carrying exactly one of the tags v, d, a, o, h (a v tag
\* carrying a sentinel string only), and a boolean, an integer, a string or a
\* finite nonzero float is emitted as the raw literal itself, untagged.
C4_RawOrTagged ==
    Encoded =>
        /\ WellFormed(Wire)
        /\ (IsNonSpecialPrimitive(input) /\ ~IsZero(input)) => Wire = input

C4_Witness ==
    /\ pc = "serialized"
    /\ input = Dict1("a", PyList(<<PyInt(1), PyNone>>))
    /\ Wire = Dict1("o", Dict1("a",
                 Dict1("a", PyList(<<PyInt(1), Dict1("v", Str1("undefined"))>>))))

\* C5: a float is emitted as the sentinel "Infinity" exactly when it is
\* +infinity, "-Infinity" exactly when it is -infinity, "-0" exactly when it
\* is negative zero, "NaN" exactly when it is NaN; every other float,
\* positive zero included, is emitted as the raw number.
C5_FloatEncoding ==
    (Encoded /\ input.t = "float") =>
        /\ (Wire = Dict1("v", Str1("Infinity"))) <=> (input = PosInf)
        /\ (Wire = Dict1("v", Str1("-Infinity"))) <=> (input = NegInf)
        /\ (Wire = Dict1("v", Str1("-0"))) <=> (input = NegZero)
        /\ (Wire = Dict1("v", Str1("NaN"))) <=> (input.cls = "nan")
        /\ (input.cls = "fin" /\ input # NegZero) => Wire = input

\* C6: a datetime with a non-UTC offset, encoded and decoded, is the same
\* instant with UTC offset zero, and the date-tag string is the instant in
\* UTC followed by one trailing Z, with no timezone offset in it.
C6_TimestampRoundTrip ==
    (pc = "roundtrip" /\ input.t = "datetime" /\ input.aware /\ input.off # 0) =>
        /\ ~native.raised
        /\ native.value.t = "datetime"
        /\ native.value.aware
        /\ Instant(native.value) = Instant(input)
        /\ native.value.off = 0
        /\ IsTagged(Wire) /\ TagOf(Wire) = "d"
        /\ LET s == Payload(Wire).s
           IN  /\ s[Len(s)] = "Z"
               /\ \A i \in 1..(Len(s) - 1) : s[i] # "Z" /\ ~IsOffTok(s[i])

\* A handle-tag node {h: i}.
IsHandleNode(v) ==
    v.t = "dict" /\ Len(v.items) = 1 /\ Has(v, "h") /\ Get(v, "h").t = "int"
IsArrayNode(v) ==
    v.t = "dict" /\ ~Has(v, "v") /\ Has(v, "a") /\ Get(v, "a").t = "list"
IsObjectNode(v) ==
    /\ v.t = "dict" /\ ~Has(v, "v") /\ ~Has(v, "a") /\ ~Has(v, "d")
    /\ Has(v, "o") /\ Get(v, "o").t = "dict"

\* C7: a handle-tag node {h: i}, at the root or inside an array-tag or
\* object-tag, is decoded to a remote-object reference: the decoded value
\* does not hold the raw {h: i} node in its place.
C7_HandleDecoding ==
    (pc = "parsed" /\ ~native.raised) =>
        /\ IsHandleNode(input) => native.value # input
        /\ IsArrayNode(input) =>
              \A i \in 1..Len(Get(input, "a").items) :
                  IsHandleNode(Get(input, "a").items[i]) =>
                      native.value.items[i] # Get(input, "a").items[i]
        /\ IsObjectNode(input) =>
              \A i \in 1..Len(Get(input, "o").items) :
                  IsHandleNode(Get(input, "o").items[i].v) =>
                      native.value.items[i].v # Get(input, "o").items[i].v

\* A node that carries none of the tags parse_value knows: a dict without
\* v, a, d and o, or a value that is no dict.
Unrecognized(v) ==
    \/ v.t # "dict"
    \/ ~Has(v, "v") /\ ~Has(v, "a") /\ ~Has(v, "d") /\ ~Has(v, "o")

\* C8: parse_value returns a node that carries none of the recognized tags
\* unchanged and without raising, at the root and where the node is an
\* element of an array-tag or a value of an object-tag.
C8_UnknownTagTolerance ==
    pc = "parsed" =>
        /\ Unrecognized(input) => native = Returned(input)
        /\ IsArrayNode(input) =>
              LET p == Get(input, "a").items
              IN  /\ (\A i \in 1..Len(p) : Unrecognized(p[i])) =>
                        native = Returned(PyList(p))
                  /\ ~native.raised =>
                        \A i \in 1..Len(p) :
                            Unrecognized(p[i]) => native.value.items[i] = p[i]
        /\ IsObjectNode(input) =>
              LET p == Get(input, "o").items
              IN  /\ (\A i \in 1..Len(p) : Unrecognized(p[i].v)) =>
                        native = Returned(Get(input, "o"))
                  /\ ~native.raised =>
                        \A i \in 1..Len(p) :
                            Unrecognized(p[i].v) => native.value.items[i] = p[i]

C8_Witness ==
    /\ pc = "parsed"
    /\ input = Dict1("a", PyList(<<Dict1("k", PyInt(1)), Dict1("h", PyInt(0))>>))
    /\ native = Returned(PyList(<<Dict1("k", PyInt(1)), Dict1("h", PyInt(0))>>))

(***************************************************************************)
(* Properties of the calls walked node by node.                            *)
(***************************************************************************)
Done(c) == status[c] \in {"returned", "raised"}
Max(S) == CHOOSE x \in S : \A y \in S : y <= x
RefKids(i) ==
    {Children(heap[i])[j].id :
        j \in {j \in 1..Len(Children(heap[i])) : Children(heap[i])[j].t = "ref"}}
\* Every container holds, of the containers, only the next one: container i
\* then lies i - 1 levels below the first, and none is reached from itself.
IsLayered == \A i \in 1..Len(heap) : RefKids(i) \subseteq {i + 1}
ReachableLayers == {i \in 1..Len(heap) : \A j \in 1..(i - 1) : (j + 1) \in RefKids(j)}
\* In a layered heap, the container levels between the first container and
\* the deepest node that is no JSHandle.
NonHandleDepth ==
    Max({i - 1 : i \in ReachableLayers}
        \cup {i \in ReachableLayers :
                \E j \in 1..Len(Children(heap[i])) :
                    Children(heap[i])[j].t \notin {"ref", "JSHandle"}})

\* C3: serialize_argument raises the depth error, and returns no envelope,
\* exactly when some node other than a JSHandle lies more than 100 container
\* levels below the root: 101 levels raise, exactly 100 levels succeed.
C3_DepthLimit ==
    (arg[1].t = "ref" /\ IsLayered /\ Done(1)) =>
        /\ (status[1] = "raised") <=> (NonHandleDepth > MaxDepth)
        /\ status[1] = "raised" => result[1] = PyNone
        /\ status[1] = "returned" => result[1].t = "dict"

C3_Witness ==
    /\ status[1] = "raised"
    /\ arg[1].t = "ref" /\ IsLayered
    /\ NonHandleDepth = MaxDepth + 1
    /\ result[1] = PyNone

\* C9: two serialize_argument calls whose node visits are interleaved in any
\* order each end as the call ends when run alone: the same envelope, the
\* handle list holding the handles of the call's own argument only, indexed
\* from 0; a call on a list that holds itself raises whatever the other does.
C9_CallIndependence ==
    \A c \in Calls :
        (Done(c) /\ status[3 - c] # "unused") =>
            IF arg[c].t = "ref" THEN status[c] = "raised"
            ELSE IF status[c] = "returned"
                 THEN Returned(result[c]) = serialize_argument(arg[c])
                 ELSE serialize_argument(arg[c]).raised

C9_Witness ==
    /\ arg[1] = PyList(<<hA, hB>>)
    /\ arg[2] = PyList(<<hA, PyList(<<hB, hA>>)>>)
    /\ status[1] = "returned"
    /\ result[1] = Envelope(Dict1("a", PyList(<<Dict1("h", PyInt(0)),
                                                 Dict1("h", PyInt(1))>>)),
                             <<Channel(hA), Channel(hB)>>)
    /\ status[2] = "running"
    /\ handles[local_handles(2)] = <<Channel(hA), Channel(hB)>>
    /\ handles[local_handles(1)] = <<Channel(hA), Channel(hB)>>

RECURSIVE ReachN(_, _)
ReachN(S, n) ==
    IF n = 0 THEN S ELSE ReachN(S \cup UNION {RefKids(i) : i \in S}, n - 1)
\* A container reached from the first container is reached from itself.
CycleReachable ==
    /\ ~IsLayered
    /\ \E i \in ReachN({1}, Len(heap)) : i \in ReachN(RefKids(i), Len(heap))

AllDone == \A c \in Calls : status[c] \in {"returned", "raised", "unused"}

\* C10: serialize_argument always terminates, returning an envelope or
\* raising the depth error, also on a list or dict reached from itself; on
\* such an input it raises, and no node is visited at a depth above 101.
C10_Termination ==
    /\ <>AllDone
    /\ [](\A c \in Calls : Len(stack[c]) <= MaxDepth + 2)
    /\ [](\A c \in Calls :
            (Done(c) /\ arg[c].t = "ref" /\ CycleReachable) => status[c] = "raised")

C10_Witness ==
    /\ status[1] = "raised"
    /\ status[2] = "unused"
    /\ heap[1] = Dict1("k", PyRef(2))
    /\ heap[2] = PyList(<<hB, PyRef(2)>>)
    /\ CycleReachable

====
